---- MODULE Spec2Model ----
(***************************************************************************)
(* Agent Communication Hub (src/server.py): the channel log engine.        *)
(*                                                                         *)
(* The persisted snapshot (channels.json) maps a channel name to its       *)
(* message list and its cursor map last_read.  Three HTTP handlers touch   *)
(* it: send_message, get_messages and list_channels.  Spec runs one        *)
(* handler at a time; SpecConc runs the handlers of several request        *)
(* threads with their load and save steps interleaved, as the threaded     *)
(* Flask server does.                                                      *)
(*                                                                         *)
(* Names and the limit parameter are strings, modelled as sequences of     *)
(* one-character strings; message texts are opaque strings.                *)
(***************************************************************************)
EXTENDS Integers, Sequences, FiniteSets, TLC

VARIABLES
    channels,    \* the persisted snapshot: channel name -> [messages, last_read]
    clock,       \* datetime.now(): a logical clock, one tick per appended message
    req,         \* the request that finished last
    resp,        \* its response
    delivered,   \* history: <<channel, agent>> -> indices returned by new-mode reads
    skipped,     \* history: <<channel, agent>> -> indices passed by the overflow guard
    readSince,   \* history: <<channel, agent>> pairs that read (new mode) with no later send by another agent
    acked,       \* history: the successful sends, [chan, index, message]
    pc,          \* request thread -> "idle" | "loaded"
    rq,          \* request thread -> the request it is serving
    loc,         \* request thread -> the snapshot it loaded
    file         \* channels.json: "intact" (it reads as channels), "empty" or "partial"

vars == <<channels, clock, req, resp, delivered, skipped, readSince, acked, pc, rq, loc, file>>

----------------------------------------------------------------------------
(* Bounds and input alphabets *)

\* longest log the initial snapshot holds
MaxSeed == 22
\* accepted sends per run of Spec
MaxSends == 1
\* accepted sends per run of SpecConc
MaxConcSends == 2

\* the floor of the limit parameter
MinLimit == 20

Lower == {"a", "b", "c", "d"}
Digits == {"0", "1", "2", "3", "4", "5", "6", "7", "8", "9"}
NameClass == Lower \cup Digits \cup {"_"}

ChannelInputs == { <<"c">>, <<"d">>, <<>>, <<"C">> }
AgentInputs == { <<"a">>, <<"b">>, <<>>, <<"a", "-">> }
TextInputs == { "", "hi" }
ModeInputs == { "new", "history", "bogus" }
LimitInputs == { <<"2", "1">>, <<"5">>, <<"x">> }
Threads == {1, 2}

----------------------------------------------------------------------------
(* Helpers of the language and library *)

\* dict.get(key, default)
Get(f, k, d) == IF k \in DOMAIN f THEN f[k] ELSE d

\* dict[key] = value
Put(f, k, v) == [x \in DOMAIN f \cup {k} |-> IF x = k THEN v ELSE f[x]]

\* seq[n:] for 0 <= n
Drop(s, n) == IF n >= Len(s) THEN <<>> ELSE SubSeq(s, n + 1, Len(s))

\* the greedy match of [a-z0-9_]+ from the start of the name: its length
RECURSIVE ClassPrefix(_, _)
ClassPrefix(name, i) ==
    IF i < Len(name) /\ name[i + 1] \in NameClass THEN ClassPrefix(name, i + 1) ELSE i

\* re.match(r'^[a-z0-9_]+$', name): `$` matches at the end of the string and
\* also just before a newline that ends the string
ValidateName(name) ==
    LET k == ClassPrefix(name, 0)
    IN  /\ k >= 1
        /\ \/ k = Len(name)
           \/ k = Len(name) - 1 /\ name[Len(name)] = "\n"

DigitVal(ch) ==
    CASE ch = "0" -> 0 [] ch = "1" -> 1 [] ch = "2" -> 2 [] ch = "3" -> 3
      [] ch = "4" -> 4 [] ch = "5" -> 5 [] ch = "6" -> 6 [] ch = "7" -> 7
      [] ch = "8" -> 8 [] ch = "9" -> 9

RECURSIVE DigitsValue(_, _)
DigitsValue(s, acc) ==
    IF s = <<>> THEN acc ELSE DigitsValue(Tail(s), acc * 10 + DigitVal(Head(s)))

\* int(s) for a string of an optional sign and decimal digits:
\* [ok |-> FALSE] is ValueError
ParseInt(s) ==
    LET signed == s # <<>> /\ Head(s) \in {"-", "+"}
        body == IF signed THEN Tail(s) ELSE s
    IN  IF body # <<>> /\ \A i \in 1..Len(body) : body[i] \in Digits
        THEN [ok |-> TRUE,
              val |-> IF signed /\ Head(s) = "-" THEN 0 - DigitsValue(body, 0)
                      ELSE DigitsValue(body, 0)]
        ELSE [ok |-> FALSE, val |-> 0]

Max(a, b) == IF a >= b THEN a ELSE b

EmptyChannel == [messages |-> <<>>, last_read |-> <<>>]

----------------------------------------------------------------------------
(* send_message *)

\* variant: the agent name not validated
SendValidateNoAgent(channel, agent, text) ==
    IF channel = <<>> \/ agent = <<>> \/ text = ""
    THEN [status |-> 400, error |-> "Missing channel, agent, or text"]
    ELSE IF ~ValidateName(channel)
    THEN [status |-> 400, error |-> "Invalid channel name"]
    ELSE [status |-> 0]

\* the checks made before the snapshot is loaded; status 0: none failed
SendValidate(channel, agent, text) ==
    IF channel = <<>> \/ agent = <<>> \/ text = ""
    THEN [status |-> 400, error |-> "Missing channel, agent, or text"]
    ELSE IF ~ValidateName(channel)
    THEN [status |-> 400, error |-> "Invalid channel name"]
    ELSE IF ~ValidateName(agent)
    THEN [status |-> 400, error |-> "Invalid agent name"]
    ELSE [status |-> 0]

\* variant: the test with <= for <, which also turns away a caught-up sender
BehindOrLevel(last_read_index, total_messages) == last_read_index <= total_messages - 1

\* the read-before-send test
Behind(last_read_index, total_messages) == last_read_index < total_messages - 1

\* variant: the message inserted at the front of the log
Prepend(messages, message) == <<message>> \o messages

\* channel_data["messages"].append(message)
AppendMessage(messages, message) == Append(messages, message)

\* variant: the sender's cursor set to the message before its own
MarkSentStale(last_read, agent, messages) == Put(last_read, agent, Len(messages) - 2)

\* variant: the sender's cursor left where it was
LeaveUnread(last_read, agent, messages) == last_read

\* the sender's cursor is set to its own message
MarkSent(last_read, agent, messages) == Put(last_read, agent, Len(messages) - 1)

\* the handler from load_channels() on, applied to the snapshot it loaded:
\* save tells whether save_channels is called, channels is what it writes
SendBody(chs, channel, agent, text, now) ==
    LET chs1 == IF channel \in DOMAIN chs THEN chs ELSE Put(chs, channel, EmptyChannel)
        channel_data == chs1[channel]
        last_read_index == Get(channel_data.last_read, agent, -1)
        total_messages == Len(channel_data.messages)
        message == [time |-> now, agent |-> agent, text |-> text]
        appended == AppendMessage(channel_data.messages, message)
        updated == [messages |-> appended,
                    last_read |-> MarkSent(channel_data.last_read, agent, appended)]
    IN  IF Behind(last_read_index, total_messages)
        THEN [save |-> FALSE, channels |-> chs, got |-> {}, passed |-> {},
              resp |-> [status |-> 403, unread_count |-> total_messages - last_read_index - 1]]
        ELSE [save |-> TRUE, channels |-> Put(chs1, channel, updated), got |-> {}, passed |-> {},
              resp |-> [status |-> 200, success |-> TRUE, message_index |-> Len(appended) - 1]]

----------------------------------------------------------------------------
(* get_messages *)

\* the checks made before the snapshot is loaded; status 0: none failed
ReadValidate(channel, agent, mode, limit) ==
    IF channel = <<>>
    THEN [status |-> 400, error |-> "Missing channel parameter"]
    ELSE IF agent = <<>>
    THEN [status |-> 400, error |-> "Missing agent parameter"]
    ELSE IF mode \notin {"new", "history"}
    THEN [status |-> 400, error |-> "Invalid mode"]
    ELSE IF ~ParseInt(limit).ok
    THEN [status |-> 400, error |-> "Invalid limit parameter"]
    ELSE IF ~ValidateName(channel)
    THEN [status |-> 400, error |-> "Invalid channel name"]
    ELSE IF ~ValidateName(agent)
    THEN [status |-> 400, error |-> "Invalid agent name"]
    ELSE [status |-> 0]

\* limit = max(20, int(limit))
EffectiveLimit(limit) == Max(MinLimit, ParseInt(limit).val)

\* variant: the new channel answered for but not saved
ReadCreateUnsaved(chs, channel, mode) ==
    [save |-> FALSE, channels |-> chs, got |-> {}, passed |-> {},
     resp |-> [status |-> 200, messages |-> <<>>, total |-> 0, new_messages |-> 0,
               mode |-> mode]]

\* variant: the new channel saved as the whole snapshot
ReadCreateAlone(chs, channel, mode) ==
    [save |-> TRUE, channels |-> Put(<<>>, channel, EmptyChannel), got |-> {}, passed |-> {},
     resp |-> [status |-> 200, messages |-> <<>>, total |-> 0, new_messages |-> 0,
               mode |-> mode]]

\* the branch for a channel that is not in the snapshot
ReadCreate(chs, channel, mode) ==
    [save |-> TRUE, channels |-> Put(chs, channel, EmptyChannel), got |-> {}, passed |-> {},
     resp |-> [status |-> 200, messages |-> <<>>, total |-> 0, new_messages |-> 0,
               mode |-> mode]]

\* variant: the first limit messages of the log returned, not the last
ReadHistoryOldest(chs, channel, limit) ==
    LET all_messages == chs[channel].messages
        limited_messages == IF Len(all_messages) > limit
                            THEN SubSeq(all_messages, 1, limit)
                            ELSE all_messages
    IN  [save |-> FALSE, channels |-> chs, got |-> {}, passed |-> {},
         resp |-> [status |-> 200, messages |-> limited_messages,
                   total |-> Len(all_messages), returned |-> Len(limited_messages),
                   mode |-> "history"]]

\* mode == 'history'
ReadHistory(chs, channel, limit) ==
    LET all_messages == chs[channel].messages
        limited_messages == IF Len(all_messages) > limit
                            THEN Drop(all_messages, Len(all_messages) - limit)
                            ELSE all_messages
    IN  [save |-> FALSE, channels |-> chs, got |-> {}, passed |-> {},
         resp |-> [status |-> 200, messages |-> limited_messages,
                   total |-> Len(all_messages), returned |-> Len(limited_messages),
                   mode |-> "history"]]

\* variant: the cursor stops one message short of the skip point
SkipShort(last_read_index, unread, total, limit) ==
    IF unread > limit THEN last_read_index + (unread - limit) - 1 ELSE total - 1

\* variant: the length stored where the last index belongs
NewLastReadLen(last_read_index, unread, total, limit) ==
    IF unread > limit THEN last_read_index + (unread - limit) ELSE total

\* variant: the skip count subtracted from the cursor
SkipBack(last_read_index, unread, total, limit) ==
    IF unread > limit THEN last_read_index - (unread - limit) ELSE total - 1

\* the cursor a new-mode read stores: the skip point when more than limit
\* messages are unread, else the last index
NewLastRead(last_read_index, unread, total, limit) ==
    IF unread > limit THEN last_read_index + (unread - limit) ELSE total - 1

\* variant: the oldest limit unread messages kept, not the newest
OldestMessages(all_new_messages, limit) ==
    IF Len(all_new_messages) > limit THEN SubSeq(all_new_messages, 1, limit)
    ELSE all_new_messages

\* the messages a new-mode read returns
NewMessages(all_new_messages, limit) ==
    IF Len(all_new_messages) > limit
    THEN Drop(all_new_messages, Len(all_new_messages) - limit)
    ELSE all_new_messages

\* variant: no count of the messages passed by
SkippedNone(unread, returned, limit) == 0

\* the "skipped" field of the response
SkippedCount(unread, returned, limit) ==
    IF unread > limit THEN unread - returned ELSE 0

\* mode == 'new'
ReadNew(chs, channel, agent, limit) ==
    LET channel_data == chs[channel]
        total == Len(channel_data.messages)
        last_read_index == Get(channel_data.last_read, agent, -1)
        all_new_messages == Drop(channel_data.messages, last_read_index + 1)
        over == Len(all_new_messages) > limit
        skip_count == IF over THEN Len(all_new_messages) - limit ELSE 0
        new_last_read == NewLastRead(last_read_index, Len(all_new_messages), total, limit)
        new_messages == NewMessages(all_new_messages, limit)
        updated == [channel_data EXCEPT !.last_read = Put(@, agent, new_last_read)]
    IN  [save |-> total > 0,
         channels |-> IF total > 0 THEN Put(chs, channel, updated) ELSE chs,
         got |-> (last_read_index + 1 + skip_count) .. (total - 1),
         passed |-> (last_read_index + 1) .. (last_read_index + skip_count),
         resp |-> [status |-> 200, messages |-> new_messages, total |-> total,
                   new_messages |-> Len(new_messages),
                   skipped |-> SkippedCount(Len(all_new_messages), Len(new_messages), limit),
                   mode |-> "new"]]

\* variant: the mode not looked at, every read of a channel served as new
ReadBodyModeless(chs, channel, agent, mode, limit) ==
    IF channel \notin DOMAIN chs THEN ReadCreate(chs, channel, mode)
    ELSE ReadNew(chs, channel, agent, EffectiveLimit(limit))

\* the handler from load_channels() on
ReadBody(chs, channel, agent, mode, limit) ==
    IF channel \notin DOMAIN chs THEN ReadCreate(chs, channel, mode)
    ELSE IF mode = "history" THEN ReadHistory(chs, channel, EffectiveLimit(limit))
    ELSE ReadNew(chs, channel, agent, EffectiveLimit(limit))

----------------------------------------------------------------------------
(* list_channels *)

ListChannels(chs) ==
    [status |-> 200,
     channels |-> {[name |-> c, message_count |-> Len(chs[c].messages)] : c \in DOMAIN chs}]

----------------------------------------------------------------------------
(* The state machine *)

ValidChannels == {c \in ChannelInputs : ValidateName(c)}
ValidAgents == {a \in AgentInputs : ValidateName(a)}
Keys == ValidChannels \X ValidAgents

NoRequest == [op |-> "none"]

\* a snapshot earlier requests left behind in channel c: one message sent by
\* `first`, then n - 1 messages sent by b (who read the first one if it was not
\* its own); n = 0 is the store before any request
Seed(n, first) ==
    IF n = 0 THEN <<>>
    ELSE Put(<<>>, <<"c">>,
             [messages |-> [i \in 1..n |->
                              [time |-> i - 1,
                               agent |-> IF i = 1 THEN first ELSE <<"b">>,
                               text |-> "hi"]],
              last_read |-> IF n = 1 \/ first = <<"b">>
                            THEN Put(<<>>, IF n = 1 THEN first ELSE <<"b">>, n - 1)
                            ELSE Put(Put(<<>>, first, 0), <<"b">>, n - 1)])

\* what the reads behind Seed(n, first) returned: b was given the first
\* message when another agent had sent it
SeedDelivered(n, first) ==
    [k \in Keys |-> IF n > 1 /\ first # <<"b">> /\ k = <<(<<"c">>), (<<"b">>)>>
                    THEN {0} ELSE {}]

InitWith(seeds) ==
    /\ \E seed \in seeds :
          /\ channels = Seed(seed[1], seed[2]) /\ clock = seed[1]
          /\ delivered = SeedDelivered(seed[1], seed[2])
    /\ req = NoRequest
    /\ resp = [status |-> 0]
    /\ skipped = [k \in Keys |-> {}]
    /\ readSince = {}
    /\ acked = {}
    /\ pc = [t \in Threads |-> "idle"]
    /\ rq = [t \in Threads |-> NoRequest]
    /\ loc = [t \in Threads |-> <<>>]
    /\ file = "intact"

\* the empty store, and logs just above the limit floor: sent by b alone, so
\* that a has read nothing, or begun by a, so that a has a cursor and is behind
Seeds ==
    {<<0, <<"b">>>>, <<MaxSeed - 1, <<"b">>>>, <<MaxSeed, <<"b">>>>, <<MaxSeed, <<"a">>>>}

Init == InitWith(Seeds)

InitConc == InitWith({<<0, <<"b">>>>})

\* a request answered before the snapshot is loaded
Refuse(request, response) ==
    /\ req' = request
    /\ resp' = response
    /\ UNCHANGED <<channels, clock, delivered, skipped, readSince, acked>>

\* the end of a request whose handler body gave r: the save, the response,
\* and the record of the acknowledged send
Commit(request, r) ==
    LET sent == request.op = "send" /\ r.resp.status = 200
    IN  /\ channels' = IF r.save THEN r.channels ELSE channels
        /\ req' = request
        /\ resp' = r.resp
        /\ clock' = IF sent THEN clock + 1 ELSE clock
        /\ acked' = IF sent
                    THEN acked \cup
                         {[chan |-> request.channel, index |-> r.resp.message_index,
                           message |-> r.channels[request.channel].messages[r.resp.message_index + 1]]}
                    ELSE acked

\* what the request showed its caller, recorded per channel and agent
Observe(request, r) ==
    LET k == <<request.channel, request.agent>>
        sent == request.op = "send" /\ r.resp.status = 200
        readNew == request.op = "read" /\ request.mode = "new"
    IN  /\ delivered' = IF r.got = {} THEN delivered
                        ELSE [delivered EXCEPT ![k] = @ \cup r.got]
        /\ skipped' = IF r.passed = {} THEN skipped
                      ELSE [skipped EXCEPT ![k] = @ \cup r.passed]
        /\ readSince' = IF sent
                        THEN {j \in readSince : j[1] # request.channel \/ j[2] = request.agent}
                        ELSE IF readNew THEN readSince \cup {k}
                        ELSE readSince

Finish(request, r) == Commit(request, r) /\ Observe(request, r)

SendRequest(channel, agent, text) ==
    [op |-> "send", channel |-> channel, agent |-> agent, text |-> text]

ReadRequest(channel, agent, mode, limit) ==
    [op |-> "read", channel |-> channel, agent |-> agent, mode |-> mode, limit |-> limit]

\* POST /api/send, served alone
Send(channel, agent, text) ==
    /\ Cardinality(acked) < MaxSends
    /\ LET v == SendValidate(channel, agent, text)
           request == SendRequest(channel, agent, text)
       IN  IF v.status = 400 THEN Refuse(request, v)
           ELSE Finish(request, SendBody(channels, channel, agent, text, clock))
    /\ UNCHANGED <<pc, rq, loc, file>>

\* GET /api/messages, served alone
Read(channel, agent, mode, limit) ==
    /\ LET v == ReadValidate(channel, agent, mode, limit)
           request == ReadRequest(channel, agent, mode, limit)
       IN  IF v.status = 400 THEN Refuse(request, v)
           ELSE Finish(request, ReadBody(channels, channel, agent, mode, limit))
    /\ UNCHANGED <<pc, rq, loc, file>>

\* GET /api/channels
List ==
    /\ req' = [op |-> "list"]
    /\ resp' = ListChannels(channels)
    /\ UNCHANGED <<channels, clock, delivered, skipped, readSince, acked, pc, rq, loc, file>>

\* the requests tried: every well-formed one (on channel d, whose log stays
\* short, with one limit), and each way of being malformed applied to one
\* well-formed request
SendInputs ==
    {r \in [channel : ChannelInputs, agent : AgentInputs, text : TextInputs] :
        \/ SendValidate(r.channel, r.agent, r.text).status # 400
        \/ r.channel = <<"c">> /\ r.agent = <<"a">>
        \/ r.channel = <<"c">> /\ r.text = "hi"
        \/ r.agent = <<"a">> /\ r.text = "hi"}

ReadInputs ==
    {r \in [channel : ChannelInputs, agent : AgentInputs, mode : ModeInputs, limit : LimitInputs] :
        \/ /\ ReadValidate(r.channel, r.agent, r.mode, r.limit).status # 400
           /\ (r.channel = <<"c">> \/ r.limit = <<"5">>)
        \/ r.channel = <<"c">> /\ r.agent = <<"a">> /\ r.mode = "new"
        \/ r.channel = <<"c">> /\ r.agent = <<"a">> /\ r.limit = <<"5">>
        \/ r.channel = <<"c">> /\ r.mode = "new" /\ r.limit = <<"5">>
        \/ r.agent = <<"a">> /\ r.mode = "new" /\ r.limit = <<"5">>}

Next ==
    \/ \E r \in SendInputs : Send(r.channel, r.agent, r.text)
    \/ \E r \in ReadInputs : Read(r.channel, r.agent, r.mode, r.limit)
    \/ List

Spec == Init /\ [][Next]_vars

----------------------------------------------------------------------------
(* Overlapping requests: the server runs each request on a thread of its    *)
(* own and takes no lock, so between the load_channels() and the            *)
(* save_channels() of one request other requests load and save.  What a     *)
(* handler does between the two is local to its thread.                     *)

Idle(t) == pc[t] = "idle"

\* the threads serving a send
Sending == {t \in Threads : pc[t] = "loaded" /\ rq[t].op = "send"}

Load(t, request) ==
    /\ pc' = [pc EXCEPT ![t] = "loaded"]
    /\ rq' = [rq EXCEPT ![t] = request]
    /\ loc' = [loc EXCEPT ![t] = channels]
    /\ UNCHANGED <<channels, clock, req, resp, delivered, skipped, readSince, acked, file>>

Return(t) ==
    /\ pc' = [pc EXCEPT ![t] = "idle"]
    /\ rq' = [rq EXCEPT ![t] = NoRequest]
    /\ loc' = [loc EXCEPT ![t] = <<>>]

\* send_message up to and including load_channels()
SendLoad(t, channel, agent, text) ==
    /\ Idle(t)
    /\ Cardinality(acked) + Cardinality(Sending) < MaxConcSends
    /\ LET v == SendValidate(channel, agent, text)
           request == SendRequest(channel, agent, text)
       IN  IF v.status = 400 THEN Refuse(request, v) /\ UNCHANGED <<pc, rq, loc, file>>
           ELSE Load(t, request)

\* send_message after load_channels()
SendSave(t) ==
    /\ pc[t] = "loaded"
    /\ rq[t].op = "send"
    /\ Commit(rq[t], SendBody(loc[t], rq[t].channel, rq[t].agent, rq[t].text, clock))
    /\ Return(t)
    /\ UNCHANGED <<delivered, skipped, readSince, file>>

\* get_messages up to and including load_channels()
ReadLoad(t, channel, agent, mode, limit) ==
    /\ Idle(t)
    /\ LET v == ReadValidate(channel, agent, mode, limit)
           request == ReadRequest(channel, agent, mode, limit)
       IN  IF v.status = 400 THEN Refuse(request, v) /\ UNCHANGED <<pc, rq, loc, file>>
           ELSE Load(t, request)

\* get_messages after load_channels()
ReadSave(t) ==
    /\ pc[t] = "loaded"
    /\ rq[t].op = "read"
    /\ Commit(rq[t], ReadBody(loc[t], rq[t].channel, rq[t].agent, rq[t].mode, rq[t].limit))
    /\ Return(t)
    /\ UNCHANGED <<delivered, skipped, readSince, file>>

\* the overlapping requests tried: the well-formed ones on one channel with
\* one limit, and one malformed request of each kind
ConcSendInputs ==
    {r \in SendInputs : r.channel # <<"d">> /\ r.agent # <<>> /\ r.text # ""
                        /\ (r.channel = <<"c">> \/ r.agent = <<"a">>)}
ConcReadInputs ==
    {r \in ReadInputs : /\ r.channel = <<"c">> /\ r.limit = <<"5">>
                        /\ r.agent # <<>> /\ (r.mode # "bogus" \/ r.agent = <<"a">>)}

NextConc ==
    \/ \E t \in Threads, r \in ConcSendInputs : SendLoad(t, r.channel, r.agent, r.text)
    \/ \E t \in Threads : SendSave(t)
    \/ \E t \in Threads, r \in ConcReadInputs : ReadLoad(t, r.channel, r.agent, r.mode, r.limit)
    \/ \E t \in Threads : ReadSave(t)
    \/ List

SpecConc == InitConc /\ [][NextConc]_vars

----------------------------------------------------------------------------
(* An interrupted save.  save_channels opens channels.json with mode 'w',   *)
(* which empties it, and json.dump then writes the new snapshot into it     *)
(* piece by piece.  One thread serves the requests; the process can be      *)
(* killed between any two steps and started again.                          *)

Server == CHOOSE t \in Threads : TRUE

\* the handler body of the request being served
BodyOf(t) ==
    IF rq[t].op = "send"
    THEN SendBody(loc[t], rq[t].channel, rq[t].agent, rq[t].text, clock)
    ELSE ReadBody(loc[t], rq[t].channel, rq[t].agent, rq[t].mode, rq[t].limit)

\* a request up to and including load_channels(): json.load raises on a file
\* that is not a whole JSON document and the request ends with a 500
Arrive(request, v) ==
    /\ Idle(Server)
    /\ IF v.status = 400 THEN Refuse(request, v) /\ UNCHANGED <<pc, rq, loc, file>>
       ELSE IF file # "intact"
       THEN /\ req' = request
            /\ resp' = [status |-> 500, error |-> "JSONDecodeError"]
            /\ UNCHANGED <<channels, clock, delivered, skipped, readSince, acked,
                           pc, rq, loc, file>>
       ELSE Load(Server, request)

SendArrive(channel, agent, text) ==
    /\ Cardinality(acked) < MaxConcSends
    /\ Arrive(SendRequest(channel, agent, text), SendValidate(channel, agent, text))

ReadArrive(channel, agent, mode, limit) ==
    Arrive(ReadRequest(channel, agent, mode, limit), ReadValidate(channel, agent, mode, limit))

\* the handler after load_channels() when it does not save
Answer ==
    /\ pc[Server] = "loaded"
    /\ ~BodyOf(Server).save
    /\ Commit(rq[Server], BodyOf(Server))
    /\ Return(Server)
    /\ UNCHANGED <<delivered, skipped, readSince, file>>

\* open(CHANNELS_FILE, 'w')
SaveOpen ==
    /\ pc[Server] = "loaded"
    /\ BodyOf(Server).save
    /\ pc' = [pc EXCEPT ![Server] = "saving"]
    /\ file' = "empty"
    /\ UNCHANGED <<channels, clock, req, resp, delivered, skipped, readSince, acked, rq, loc>>

\* json.dump has written a part of the document
SaveWrite ==
    /\ pc[Server] = "saving"
    /\ file = "empty"
    /\ file' = "partial"
    /\ UNCHANGED <<channels, clock, req, resp, delivered, skipped, readSince, acked, pc, rq, loc>>

\* json.dump has written all of it and the file is closed
SaveClose ==
    /\ pc[Server] = "saving"
    /\ Commit(rq[Server], BodyOf(Server))
    /\ file' = "intact"
    /\ Return(Server)
    /\ UNCHANGED <<delivered, skipped, readSince>>

\* the process is killed while it serves a request, and started again
Crash ==
    /\ ~Idle(Server)
    /\ Return(Server)
    /\ UNCHANGED <<channels, clock, req, resp, delivered, skipped, readSince, acked, file>>

NextCrash ==
    \/ \E r \in ConcSendInputs : SendArrive(r.channel, r.agent, r.text)
    \/ \E r \in ConcReadInputs : ReadArrive(r.channel, r.agent, r.mode, r.limit)
    \/ Answer
    \/ SaveOpen
    \/ SaveWrite
    \/ SaveClose
    \/ Crash

SpecCrash == InitConc /\ [][NextCrash]_vars

----------------------------------------------------------------------------
(* Properties *)

\* the cursor of agent a in channel c of snapshot chs, -1 when absent
CursorOf(chs, c, a) == IF c \in DOMAIN chs THEN Get(chs[c].last_read, a, -1) ELSE -1

\* the messages of channel c of snapshot chs
LogOf(chs, c) == IF c \in DOMAIN chs THEN chs[c].messages ELSE <<>>

Min(a, b) == IF a <= b THEN a ELSE b

\* the step is a send that passed validation / was accepted
SendStep == req'.op = "send" /\ resp'.status # 400
AcceptedStep == req'.op = "send" /\ resp'.status = 200

\* the step is a new-mode read that passed validation
ReadNewStep == req'.op = "read" /\ resp'.status = 200 /\ req'.mode = "new"

\* the last request was a new-mode read that passed validation
ReadNewDone == req.op = "read" /\ resp.status = 200 /\ req.mode = "new"

\* the last request was a new-mode read that passed some messages by
OverflowDone == ReadNewDone /\ "skipped" \in DOMAIN resp /\ resp.skipped > 0

\* C1: a well-formed send is accepted exactly when the sender's cursor (-1 when
\* absent) is the last index of the channel; otherwise it is rejected (403) with
\* unread_count = len - 1 - cursor > 0 and the snapshot is left as it was.
C1_ReadBeforeSend ==
    [][SendStep =>
        LET cur == CursorOf(channels, req'.channel, req'.agent)
            n == Len(LogOf(channels, req'.channel))
        IN  /\ (resp'.status = 200) <=> (cur = n - 1)
            /\ resp'.status # 200 =>
                 /\ resp'.status = 403
                 /\ resp'.unread_count = n - 1 - cur
                 /\ resp'.unread_count > 0
                 /\ channels' = channels]_vars

\* a send was rejected for more than one unread message
C1_Witness == req.op = "send" /\ resp.status = 403 /\ resp.unread_count > 1

\* C2: after a new-mode read of a non-empty channel the reader's cursor is the
\* index of the last message.
C2_ReadAdvancesToLast ==
    (ReadNewDone /\ resp.total > 0) =>
        CursorOf(channels, req.channel, req.agent) = Len(LogOf(channels, req.channel)) - 1

\* C3: a send by an agent that has read the channel in new mode, with no send
\* by another agent since, is accepted.
C3_ReadThenSend ==
    [][(SendStep /\ <<req'.channel, req'.agent>> \in readSince) => resp'.status = 200]_vars

\* C4: a new-mode read returns no message index it returned to the same agent
\* before: the indices delivered grow by the number of messages returned.
C4_NoRedelivery ==
    [][ReadNewStep =>
        LET k == <<req'.channel, req'.agent>>
        IN  Cardinality(delivered'[k]) = Cardinality(delivered[k]) + resp'.new_messages]_vars

\* C5: with L = max(20, limit) and u the number of messages after the cursor, a
\* new-mode read of a channel of the snapshot returns the last min(u, L)
\* messages in append order, new_messages = min(u, L), skipped = max(0, u - L).
C5_ReadNewCounts ==
    [][(ReadNewStep /\ req'.channel \in DOMAIN channels) =>
        LET log == LogOf(channels, req'.channel)
            u == Len(log) - 1 - CursorOf(channels, req'.channel, req'.agent)
            L == Max(MinLimit, ParseInt(req'.limit).val)
            m == Min(u, L)
        IN  /\ resp'.messages = SubSeq(log, Len(log) - m + 1, Len(log))
            /\ resp'.new_messages = m
            /\ resp'.skipped = Max(0, u - L)
            /\ Len(resp'.messages) <= L]_vars

\* a new-mode read found more unread messages than its limit
C5_Witness == OverflowDone /\ resp.new_messages = 21

\* C6: an accepted send appends one message at the index equal to the length
\* before, returns that index and sets the sender's cursor to it; earlier
\* messages, other agents' cursors and other channels are unchanged.
C6_SendEffect ==
    [][AcceptedStep =>
        LET c == req'.channel
            a == req'.agent
            pre == LogOf(channels, c)
            post == channels'[c].messages
            curs == IF c \in DOMAIN channels THEN channels[c].last_read ELSE <<>>
        IN  /\ Len(post) = Len(pre) + 1
            /\ SubSeq(post, 1, Len(pre)) = pre
            /\ post[Len(pre) + 1].agent = a
            /\ post[Len(pre) + 1].text = req'.text
            /\ resp'.message_index = Len(pre)
            /\ DOMAIN channels'[c].last_read = DOMAIN curs \cup {a}
            /\ channels'[c].last_read[a] = Len(pre)
            /\ \A x \in DOMAIN curs \ {a} : channels'[c].last_read[x] = curs[x]
            /\ DOMAIN channels' = DOMAIN channels \cup {c}
            /\ \A d \in DOMAIN channels \ {c} : channels'[d] = channels[d]]_vars

\* a send was accepted into a channel that held messages and other cursors,
\* while another channel existed
C6_Witness ==
    /\ req.op = "send" /\ resp.status = 200 /\ resp.message_index > 0
    /\ Cardinality(DOMAIN channels) = 2
    /\ Cardinality(DOMAIN channels[req.channel].last_read) = 2

\* C7: no cursor (-1 when absent) ever decreases.
C7_MonotonicCursor ==
    [][\A k \in Keys : CursorOf(channels', k[1], k[2]) >= CursorOf(channels, k[1], k[2])]_vars

\* a new-mode read took the overflow branch for an agent that had a cursor
C7_Witness ==
    /\ OverflowDone
    /\ CursorOf(channels, req.channel, req.agent) > resp.skipped - 1

\* C8: a new-mode read never returns a message the reader sent.
C8_OwnNotDelivered ==
    ReadNewDone => \A i \in 1..Len(resp.messages) : resp.messages[i].agent # req.agent

\* an agent with a message of its own in the channel got messages from a new-mode read
C8_Witness ==
    /\ ReadNewDone /\ resp.new_messages > 0
    /\ \E i \in 1..Len(LogOf(channels, req.channel)) :
          LogOf(channels, req.channel)[i].agent = req.agent

\* C9: a channel of the snapshot stays in it, its log never gets shorter and
\* the message at each index stays the same.
C9_AppendOnly ==
    [][\A c \in DOMAIN channels :
        /\ c \in DOMAIN channels'
        /\ Len(channels'[c].messages) >= Len(channels[c].messages)
        /\ \A i \in 1..Len(channels[c].messages) :
              channels'[c].messages[i] = channels[c].messages[i]]_vars

\* a second channel was created next to a channel with messages, and a message
\* was appended to a log that already held some
C9_Witness ==
    /\ Cardinality(DOMAIN channels) = 2
    /\ \E r \in acked : r.index > 0

\* C10: every acknowledged send stays in the persisted log at the index returned.
C10_NoLostMessage ==
    \A r \in acked :
        /\ r.chan \in DOMAIN channels
        /\ Len(channels[r.chan].messages) > r.index
        /\ channels[r.chan].messages[r.index + 1] = r.message

\* C11: with overlapping requests, the persisted cursor of every agent in
\* every channel of the snapshot never decreases from one save to the next.
C11_MonotonicPersistedCursor ==
    [][\A c \in DOMAIN channels : \A a \in DOMAIN channels[c].last_read :
          CursorOf(channels', c, a) >= channels[c].last_read[a]]_vars

\* C12: whenever a save was interrupted, the next load still reads a whole
\* snapshot: no request ends with the 500 of a file that does not parse.
C12_CrashConsistentSave == resp.status # 500

\* the step is a history-mode read that passed validation
HistoryStep == req'.op = "read" /\ resp'.status = 200 /\ req'.mode = "history"

\* the last request was a history-mode read of a channel of the snapshot
HistoryDone ==
    req.op = "read" /\ resp.status = 200 /\ req.mode = "history" /\ "returned" \in DOMAIN resp

\* C13: a history-mode read of a channel of the snapshot changes no cursor and
\* no message of any channel, so a send by the reader is answered after it as
\* it would have been before it.
C13_HistoryCursorNeutral ==
    [][(HistoryStep /\ req'.channel \in DOMAIN channels) =>
        /\ channels' = channels
        /\ SendBody(channels', req'.channel, req'.agent, "hi", clock').resp
             = SendBody(channels, req'.channel, req'.agent, "hi", clock).resp]_vars

\* an agent that is behind read the history
C13_Witness ==
    /\ HistoryDone
    /\ CursorOf(channels, req.channel, req.agent) < Len(LogOf(channels, req.channel)) - 1

\* C14: a history-mode read returns the last min(L, total) messages of the
\* log in append order and total, L = max(20, limit), whatever the cursors
\* are; read again at once by any agent, or after a new-mode read by any agent
\* with any limit, it returns the same messages and total.
C14_HistoryResult ==
    [][HistoryStep =>
        LET c == req'.channel
            log == LogOf(channels, c)
            L == Max(MinLimit, ParseInt(req'.limit).val)
            m == Min(L, Len(log))
            Again(chs, a) == ReadBody(chs, c, a, "history", req'.limit).resp
            Same(r) == r.messages = resp'.messages /\ r.total = resp'.total
        IN  /\ resp'.messages = SubSeq(log, Len(log) - m + 1, Len(log))
            /\ resp'.total = Len(log)
            /\ \A a \in ValidAgents :
                  /\ Same(Again(channels', a))
                  /\ \A b \in ValidAgents, l \in {<<"5">>, <<"2", "1">>} :
                        Same(Again(ReadBody(channels', c, b, "new", l).channels, a))]_vars

\* a history read returned fewer messages than the log holds
C14_Witness == HistoryDone /\ resp.returned < resp.total

\* the last request was a read that created its channel
CreateDone ==
    /\ req.op = "read" /\ resp.status = 200
    /\ "skipped" \notin DOMAIN resp /\ "returned" \notin DOMAIN resp

\* C15: a well-formed read, in either mode, of a channel that is not in the
\* snapshot returns no messages, total 0 and new_messages 0; afterwards the
\* channel is in the snapshot with no messages and no cursors, list_channels
\* lists it with message_count 0, and a send to it by any agent is accepted
\* with index 0.
C15_LazyCreation ==
    [][(req'.op = "read" /\ resp'.status = 200 /\ req'.channel \notin DOMAIN channels) =>
        LET c == req'.channel
        IN  /\ resp'.messages = <<>>
            /\ resp'.total = 0
            /\ resp'.new_messages = 0
            /\ DOMAIN channels' = DOMAIN channels \cup {c}
            /\ channels'[c].messages = <<>>
            /\ DOMAIN channels'[c].last_read = {}
            /\ [name |-> c, message_count |-> 0] \in ListChannels(channels').channels
            /\ \A a \in ValidAgents :
                  LET answer == SendBody(channels', c, a, "hi", clock').resp
                  IN  answer.status = 200 /\ answer.message_index = 0]_vars

\* a history-mode read created a channel next to a channel with messages
C15_Witness ==
    /\ CreateDone /\ req.mode = "history"
    /\ channels[req.channel] = EmptyChannel
    /\ \E c \in DOMAIN channels : Len(channels[c].messages) > 0

\* the request lacks a field, names a channel or an agent with a character
\* outside a-z, 0-9 and _, asks for an unknown mode or gives a limit that is
\* no integer
Defective(request) ==
    \/ request.channel \in {<<>>, <<"C">>}
    \/ request.agent \in {<<>>, <<"a", "-">>}
    \/ request.op = "send" /\ request.text = ""
    \/ request.op = "read" /\ request.mode = "bogus"
    \/ request.op = "read" /\ request.limit = <<"x">>

\* C16: a send or a read with such a defect is answered with an error (400),
\* and a request answered with that error leaves the snapshot as it was: no
\* channel is created.
C16_ValidationChangesNothing ==
    [][(req'.op \in {"send", "read"} /\ (Defective(req') \/ resp'.status = 400)) =>
        /\ resp'.status = 400
        /\ channels' = channels]_vars

\* a read that named a malformed channel was refused, and the channel is not
\* in the snapshot
C16_Witness ==
    /\ req.op = "read" /\ resp.status = 400 /\ req.channel = <<"C">>
    /\ DOMAIN channels # {} /\ req.channel \notin DOMAIN channels

----------------------------------------------------------------------------
(* The name validator alone, on every short string over NameAlphabet *)

\* longest name tried
MaxNameLen == 3

\* a lowercase letter, a digit, the underscore, and characters outside the class
NameAlphabet == {"a", "0", "_", "A", "-", ".", " ", "\n"}
NameInputs == UNION {[1..n -> NameAlphabet] : n \in 0..MaxNameLen}

InitNames ==
    /\ \E name \in NameInputs : req = [op |-> "validate", name |-> name]
    /\ resp = [status |-> 0]
    /\ channels = Seed(0, <<"b">>) /\ clock = 0
    /\ delivered = [k \in Keys |-> {}]
    /\ skipped = [k \in Keys |-> {}]
    /\ readSince = {}
    /\ acked = {}
    /\ pc = [t \in Threads |-> "idle"]
    /\ rq = [t \in Threads |-> NoRequest]
    /\ loc = [t \in Threads |-> <<>>]
    /\ file = "intact"

\* validate_name(name): the first element of the pair it returns
Validate ==
    /\ req.op = "validate" /\ resp.status = 0
    /\ resp' = [status |-> 200, ok |-> ValidateName(req.name)]
    /\ UNCHANGED <<channels, clock, req, delivered, skipped, readSince, acked,
                   pc, rq, loc, file>>

NextNames == Validate

SpecNames == InitNames /\ [][NextNames]_vars

InClass(name) == name # <<>> /\ \A i \in 1..Len(name) : name[i] \in NameClass

\* C17: validate_name accepts a string exactly when it is non-empty and each of
\* its characters is a lowercase letter, a digit or an underscore.
C17_NameValidator ==
    (req.op = "validate" /\ resp.status = 200) => (resp.ok <=> InClass(req.name))

----------------------------------------------------------------------------

\* C18: every stored cursor is an index of its channel's log, so a channel
\* without messages has no cursors; and after a new-mode read of a channel that
\* has messages the reader has a cursor, whatever the number of messages returned.
C18_CursorRange ==
    /\ \A c \in DOMAIN channels : \A a \in DOMAIN channels[c].last_read :
          /\ 0 <= channels[c].last_read[a]
          /\ channels[c].last_read[a] <= Len(channels[c].messages) - 1
    /\ \A c \in DOMAIN channels :
          channels[c].messages = <<>> => DOMAIN channels[c].last_read = {}
    /\ (ReadNewDone /\ "skipped" \in DOMAIN resp /\ resp.total > 0) =>
          req.agent \in DOMAIN channels[req.channel].last_read

\* a new-mode read of an existing channel without messages has been served
EmptyReadDone == ReadNewDone /\ "skipped" \in DOMAIN resp /\ resp.total = 0

\* a new-mode read of a channel with messages returned none, while another
\* channel is still empty
C18_Witness ==
    /\ ReadNewDone /\ "skipped" \in DOMAIN resp
    /\ resp.total > 0 /\ resp.new_messages = 0
    /\ \E c \in DOMAIN channels : channels[c] = EmptyChannel

----------------------------------------------------------------------------

\* C19: however the loads and saves of overlapping requests interleave, in the
\* persisted snapshot no cursor lies beyond the last index of its channel, and
\* every message is at or before the cursor of the agent that sent it.
C19_SnapshotConsistent ==
    \A c \in DOMAIN channels :
        LET log == channels[c].messages
            last_read == channels[c].last_read
        IN  /\ \A a \in DOMAIN last_read : last_read[a] <= Len(log) - 1
            /\ \A i \in 1..Len(log) : i - 1 <= Get(last_read, log[i].agent, -1)

\* a save has overwritten an acknowledged message: the snapshot was written by
\* a request that had loaded before another one saved
C19_Witness ==
    /\ \E r \in acked :
          \/ Len(LogOf(channels, r.chan)) <= r.index
          \/ LogOf(channels, r.chan)[r.index + 1] # r.message
    /\ \E c \in DOMAIN channels :
          channels[c].messages # <<>> /\ Cardinality(DOMAIN channels[c].last_read) = 2

----------------------------------------------------------------------------

\* this step serves a new-mode read of the agent, the channel and the effective
\* limit of the new-mode read served just before it
SecondReadStep ==
    /\ ReadNewDone /\ ReadNewStep
    /\ req'.channel = req.channel /\ req'.agent = req.agent
    /\ EffectiveLimit(req'.limit) = EffectiveLimit(req.limit)

\* C20: after two consecutive new-mode reads by one agent of one channel with
\* one effective limit (20 or more), whatever the number of messages unread
\* before the first, the agent's cursor is the last index and a send by the
\* agent would be accepted.
C20_TwoReadsCatchUp ==
    [][SecondReadStep =>
        /\ CursorOf(channels', req'.channel, req'.agent)
              = Len(LogOf(channels', req'.channel)) - 1
        /\ SendBody(channels', req'.channel, req'.agent, "hi", clock').resp.status = 200]_vars

\* the second read has been served after a first one that passed messages by:
\* it returned a full page, passed nothing by and left the reader caught up
C20_Witness ==
    /\ ReadNewDone /\ "skipped" \in DOMAIN resp
    /\ skipped[<<req.channel, req.agent>>] # {}
    /\ resp.skipped = 0 /\ resp.new_messages = EffectiveLimit(req.limit)
    /\ CursorOf(channels, req.channel, req.agent) = Len(LogOf(channels, req.channel)) - 1

----------------------------------------------------------------------------

\* message i of channel c is accounted for to agent a: a sent it, a new-mode
\* read returned it to a, or a new-mode read by a counted it as skipped
Accounted(chs, c, a, i) ==
    \/ LogOf(chs, c)[i + 1].agent = a
    \/ i \in delivered[<<c, a>>]
    \/ i \in skipped[<<c, a>>]

\* the same, of the state a step leads to
AccountedNext(c, a, i) ==
    \/ LogOf(channels', c)[i + 1].agent = a
    \/ i \in delivered'[<<c, a>>]
    \/ i \in skipped'[<<c, a>>]

\* no cursor covers a message that is not accounted for to its agent
CursorsAccounted ==
    \A c \in DOMAIN channels : \A a \in DOMAIN channels[c].last_read :
        \A i \in 0..channels[c].last_read[a] : Accounted(channels, c, a, i)

\* a new-mode read of an existing channel returns the last new_messages
\* messages of the log; the record of what the reader was given grows by
\* these, and the record of what it was made to skip grows by the other
\* messages its cursor moved over, which are no more than the skipped count
ReadAccounts ==
    (ReadNewStep /\ req'.channel \in DOMAIN channels) =>
        LET c == req'.channel
            a == req'.agent
            k == <<c, a>>
            log == LogOf(channels', c)
            total == resp'.total
            n == resp'.new_messages
            returned == (total - n)..(total - 1)
            moved == (CursorOf(channels, c, a) + 1)..CursorOf(channels', c, a)
        IN  /\ total = Len(log)
            /\ resp'.messages = SubSeq(log, total - n + 1, total)
            /\ delivered'[k] = delivered[k] \cup returned
            /\ skipped'[k] = skipped[k] \cup (moved \ returned)
            /\ Cardinality(moved \ returned) <= resp'.skipped

\* when a send is accepted every message of the channel is accounted for to
\* the sender
SendAccounts ==
    AcceptedStep =>
        \A i \in 0..(Len(LogOf(channels', req'.channel)) - 1) :
            AccountedNext(req'.channel, req'.agent, i)

\* C21: every message at or before an agent's cursor was sent by the agent,
\* returned to it by a new-mode read, or counted in the skipped count of one of
\* its new-mode reads; so when a send is accepted every message of the channel
\* is in one of these three classes.
C21_CursorCoverage ==
    []CursorsAccounted /\ [][ReadAccounts /\ SendAccounts]_vars

\* a send was accepted from an agent whose reads had passed some messages by
\* and returned others, in a channel where another agent had sent
C21_Witness ==
    /\ req.op = "send" /\ resp.status = 200
    /\ skipped[<<req.channel, req.agent>>] # {}
    /\ delivered[<<req.channel, req.agent>>] # {}
    /\ CursorOf(channels, req.channel, req.agent) = Len(LogOf(channels, req.channel)) - 1

====
